---- MODULE Spec2Model ----
(***************************************************************************)
(* A model of solarSystemSim.py: the Planet class (attraction,             *)
(* update_position, draw) and the event loop of main().                    *)
(*                                                                         *)
(* Numbers.  The program computes in IEEE doubles.  The model computes in  *)
(* integers: every quantity is a whole number of model units and every     *)
(* operation that rounds in floating point (division, sqrt, cos, sin)      *)
(* rounds to the nearest unit here, ties away from zero, so that rounding  *)
(* is sign-symmetric as IEEE rounding is.  The units are chosen so that    *)
(* all values stay within 32 bits: 1 AU is 400 length units.               *)
(*                                                                         *)
(* Control.  One thread runs main().  pc says where it stands; the for     *)
(* loop of update_position takes one step per list entry.                  *)
(***************************************************************************)
EXTENDS Integers, Sequences, FiniteSets, TLC

VARIABLES
    planets,    \* main: the list `planets`; each entry is one Planet object
    run,        \* main: the flag `run`
    pc,         \* where control stands
    idx,        \* main: position of `for planet in planets` (1-based)
    j,          \* update_position: position of `for planet in planets` (1-based)
    total_fx,   \* update_position: the local total_fx
    total_fy,   \* update_position: the local total_fy
    win,        \* WIN: what has been drawn on the window since the last fill
    tick,       \* history: number of loop iterations started
    steps,      \* history: completed update_position calls, per body
    updated,    \* history: update_position calls completed in this tick, per body
    drawn,      \* history: draw calls in this tick, per body
    start,      \* history: `planets` as it stood when this tick's for loop began
    pre,        \* history: `planets` as it stood when update_position was last called
    calls,      \* history: the attraction(a, b) calls of the last update_position call
    quit        \* history: a QUIT event was seen in this tick

vars == <<planets, run, pc, idx, j, total_fx, total_fy, win, tick, steps, updated,
          drawn, start, pre, calls, quit>>

-----------------------------------------------------------------------------
(* Bounds of the model *)

MaxBodies == 3
MaxTicks == 2
MaxEvents == 1

-----------------------------------------------------------------------------
(* Program constants, in model units *)

WIDTH == 1250
HEIGHT == 800
AU == 400
G == 1800
TIMESTEP == 2

-----------------------------------------------------------------------------
(* Arithmetic: what the float operations do, to the nearest unit *)

Abs(v) == IF v < 0 THEN -v ELSE v

\* a / b for b > 0, rounded to nearest, ties away from zero; n and d are the
\* values of a and b
RoundDiv(a, b) ==
    CHOOSE q \in { IF n >= 0 THEN (2 * n + d) \div (2 * d)
                   ELSE -((2 * (-n) + d) \div (2 * d)) :
                   n \in {a}, d \in {b} } : TRUE

\* The largest r in lo..hi with r * r <= n, by bisection; m is the midpoint
RECURSIVE SqrtSearch(_, _, _)
SqrtSearch(n, lo, hi) ==
    IF lo >= hi THEN lo
    ELSE CHOOSE r \in { IF m * m <= n THEN SqrtSearch(n, m, hi)
                        ELSE SqrtSearch(n, lo, m - 1) :
                        m \in {(lo + hi + 1) \div 2} } : TRUE

\* f or f + 1, whichever is nearer to the square root of n, for f * f <= n < (f + 1)^2
Nearest(n, f) == IF n - f * f > f THEN f + 1 ELSE f

\* math.sqrt(n), rounded to nearest
sqrt(n) == Nearest(n, SqrtSearch(n, 0, IF n < 46340 THEN n ELSE 46340))

\* math.atan2(y, x): the angle is kept as the direction it stands for
atan2(y, x) == <<y, x>>

\* math.cos(theta) and math.sin(theta), in thousandths; atan2(0, 0) is 0
cos(theta) ==
    IF theta = <<0, 0>> THEN 1000
    ELSE RoundDiv(theta[2] * 1000, sqrt(theta[1] * theta[1] + theta[2] * theta[2]))

sin(theta) ==
    IF theta = <<0, 0>> THEN 0
    ELSE RoundDiv(theta[1] * 1000, sqrt(theta[1] * theta[1] + theta[2] * theta[2]))

-----------------------------------------------------------------------------
(* class Planet *)

\* Planet.__init__
Planet(x, y, radius, color, mass) ==
    [x |-> x, y |-> y, radius |-> radius, color |-> color, mass |-> mass,
     orbit |-> <<>>, sun |-> FALSE, distance_to_sun |-> 0,
     x_vel |-> 0, y_vel |-> 0]

\* attraction_at returning no force, instead of raising, at distance 0
attraction_guarded(self, other, distance_x, distance_y, distance) ==
    [raised |-> FALSE,
     distance_to_sun |-> IF other.sun THEN distance ELSE self.distance_to_sun,
     force_x |-> IF distance = 0 THEN 0
                 ELSE RoundDiv(RoundDiv(G * self.mass * other.mass, distance * distance)
                               * cos(atan2(distance_y, distance_x)), 1000),
     force_y |-> IF distance = 0 THEN 0
                 ELSE RoundDiv(RoundDiv(G * self.mass * other.mass, distance * distance)
                               * sin(atan2(distance_y, distance_x)), 1000)]

\* attraction_at with self.mass squared in place of self.mass * other.mass
attraction_selfmass(self, other, distance_x, distance_y, distance) ==
    IF distance * distance = 0
    THEN [raised |-> TRUE,
          distance_to_sun |-> IF other.sun THEN distance ELSE self.distance_to_sun,
          force_x |-> 0, force_y |-> 0]
    ELSE [raised |-> FALSE,
          distance_to_sun |-> IF other.sun THEN distance ELSE self.distance_to_sun,
          force_x |-> RoundDiv(RoundDiv(G * self.mass * self.mass, distance * distance)
                               * cos(atan2(distance_y, distance_x)), 1000),
          force_y |-> RoundDiv(RoundDiv(G * self.mass * self.mass, distance * distance)
                               * sin(atan2(distance_y, distance_x)), 1000)]

\* attraction_at with the test on self.sun in place of other.sun
attraction_selfsun(self, other, distance_x, distance_y, distance) ==
    IF distance * distance = 0
    THEN [raised |-> TRUE,
          distance_to_sun |-> IF self.sun THEN distance ELSE self.distance_to_sun,
          force_x |-> 0, force_y |-> 0]
    ELSE [raised |-> FALSE,
          distance_to_sun |-> IF self.sun THEN distance ELSE self.distance_to_sun,
          force_x |-> RoundDiv(RoundDiv(G * self.mass * other.mass, distance * distance)
                               * cos(atan2(distance_y, distance_x)), 1000),
          force_y |-> RoundDiv(RoundDiv(G * self.mass * other.mass, distance * distance)
                               * sin(atan2(distance_y, distance_x)), 1000)]

\* Planet.attraction, lines 83-91, once distance_x, distance_y and distance are
\* computed: whether it raised (the ZeroDivisionError of `/ distance**2`), the
\* value it leaves in self.distance_to_sun (written before the division), and
\* the force (force * cos(theta), force * sin(theta)) it returns
attraction_at(self, other, distance_x, distance_y, distance) ==
    IF distance * distance = 0
    THEN [raised |-> TRUE,
          distance_to_sun |-> IF other.sun THEN distance ELSE self.distance_to_sun,
          force_x |-> 0, force_y |-> 0]
    ELSE [raised |-> FALSE,
          distance_to_sun |-> IF other.sun THEN distance ELSE self.distance_to_sun,
          force_x |-> RoundDiv(RoundDiv(G * self.mass * other.mass, distance * distance)
                               * cos(atan2(distance_y, distance_x)), 1000),
          force_y |-> RoundDiv(RoundDiv(G * self.mass * other.mass, distance * distance)
                               * sin(atan2(distance_y, distance_x)), 1000)]

\* Planet.attraction(self, other), lines 78-81 and on; d is `distance`
attraction(self, other) ==
    CHOOSE f \in { attraction_at(self, other, other.x - self.x, other.y - self.y, d) :
                   d \in {sqrt((other.x - self.x) * (other.x - self.x)
                               + (other.y - self.y) * (other.y - self.y))} } : TRUE

\* integrate with the orbit entry taken before the position is updated
integrate_AppendOld(self, fx, fy) ==
    LET x_vel == self.x_vel + RoundDiv(fx, self.mass) * TIMESTEP
        y_vel == self.y_vel + RoundDiv(fy, self.mass) * TIMESTEP
    IN [self EXCEPT !.x_vel = x_vel, !.y_vel = y_vel,
                    !.x = self.x + x_vel * TIMESTEP,
                    !.y = self.y + y_vel * TIMESTEP,
                    !.orbit = Append(self.orbit, <<self.x, self.y>>)]

\* integrate with the position advanced by the old velocity (explicit Euler)
integrate_OldVelocity(self, fx, fy) ==
    LET x == self.x + self.x_vel * TIMESTEP
        y == self.y + self.y_vel * TIMESTEP
    IN [self EXCEPT !.x_vel = self.x_vel + RoundDiv(fx, self.mass) * TIMESTEP,
                    !.y_vel = self.y_vel + RoundDiv(fy, self.mass) * TIMESTEP,
                    !.x = x, !.y = y,
                    !.orbit = Append(self.orbit, <<x, y>>)]

\* integrate with the velocity assigned (=) instead of increased (+=)
integrate_AssignVelocity(self, fx, fy) ==
    LET x_vel == RoundDiv(fx, self.mass) * TIMESTEP
        y_vel == RoundDiv(fy, self.mass) * TIMESTEP
        x == self.x + x_vel * TIMESTEP
        y == self.y + y_vel * TIMESTEP
    IN [self EXCEPT !.x_vel = x_vel, !.y_vel = y_vel, !.x = x, !.y = y,
                    !.orbit = Append(self.orbit, <<x, y>>)]

\* Lines 105-114 of update_position: self after them, given the totals
integrate(self, fx, fy) ==
    LET x_vel == self.x_vel + RoundDiv(fx, self.mass) * TIMESTEP
        y_vel == self.y_vel + RoundDiv(fy, self.mass) * TIMESTEP
        x == self.x + x_vel * TIMESTEP
        y == self.y + y_vel * TIMESTEP
    IN [self EXCEPT !.x_vel = x_vel, !.y_vel = y_vel, !.x = x, !.y = y,
                    !.orbit = Append(self.orbit, <<x, y>>)]

\* x * SCALE + WIDTH / 2, with SCALE = 20 / AU
ToScreen(v, size) == RoundDiv(v * 20, AU) + size \div 2

\* Planet.draw(self, win): what the call puts on the window.  With more than
\* two orbit points x, y are left at the last orbit point by the loop.  The
\* text is the distance in tenths of 10 * 10**9 m, which is 27 length units.
draw(self) ==
    LET at == IF Len(self.orbit) > 2 THEN self.orbit[Len(self.orbit)]
              ELSE <<self.x, self.y>>
    IN [lines |-> IF Len(self.orbit) > 2
                  THEN [k \in 1..Len(self.orbit) |->
                           <<ToScreen(self.orbit[k][1], WIDTH),
                             ToScreen(self.orbit[k][2], HEIGHT)>>]
                  ELSE <<>>,
        circle |-> <<ToScreen(at[1], WIDTH), ToScreen(at[2], HEIGHT),
                     self.radius, self.color>>,
        text |-> IF self.sun THEN -1 ELSE RoundDiv(self.distance_to_sun * 10, 27)]

-----------------------------------------------------------------------------
(* main() *)

\* Where a body starts: x, y, x_vel, y_vel
Starts == { <<0, 0, 0, 0>>, <<AU, 0, 0, -30>>, <<0, 300, 20, 0>>, <<AU, 300, -10, 10>> }

\* The mass, radius and color of the i-th body of the list
MassOf(i) == 100 * (((2 * i) % 3) + 1)
RadiusOf(i) == 4 + i
ColorOf(i) == <<"YELLOW", "DARK_GREY", "LIGHT_GREY", "BLUE", "RED">>[((i - 1) % 5) + 1]

\* One body as main builds it: the constructor, then .sun and the velocity
Body(i, st, isSun) ==
    [Planet(st[1], st[2], RadiusOf(i), ColorOf(i), MassOf(i))
        EXCEPT !.sun = isSun, !.x_vel = st[3], !.y_vel = st[4]]

EventTypes == {"QUIT", "OTHER"}

\* What pygame.event.get() may return: the lists of at most n events
RECURSIVE EventLists(_)
EventLists(n) ==
    IF n = 0 THEN {<<>>}
    ELSE EventLists(n - 1) \cup { Append(e, t) : e \in EventLists(n - 1), t \in EventTypes }

N == Len(planets)
Zero == [i \in 1..N |-> 0]

Init ==
    /\ \E n \in 1..MaxBodies :
         \E st \in [1..n -> Starts], su \in [1..n -> BOOLEAN] :
            planets = [i \in 1..n |-> Body(i, st[i], su[i])]
    /\ run = TRUE
    /\ pc = "while"
    /\ idx = 0
    /\ j = 0
    /\ total_fx = 0
    /\ total_fy = 0
    /\ win = <<>>
    /\ tick = 0
    /\ steps = Zero
    /\ updated = Zero
    /\ drawn = Zero
    /\ start = planets
    /\ pre = planets
    /\ calls = {}
    /\ quit = FALSE

\* while run: clock.tick(FPS); WIN.fill(BLACK)
Tick ==
    /\ pc = "while" /\ run /\ tick < MaxTicks
    /\ pc' = "events"
    /\ win' = <<>>
    /\ tick' = tick + 1
    /\ updated' = Zero
    /\ drawn' = Zero
    /\ quit' = FALSE
    /\ UNCHANGED <<planets, run, idx, j, total_fx, total_fy, steps, start, pre, calls>>

\* while run: the test fails; pygame.quit()
Exit ==
    /\ pc = "while" /\ ~run
    /\ pc' = "done"
    /\ UNCHANGED <<planets, run, idx, j, total_fx, total_fy, win, tick, steps, updated,
                   drawn, start, pre, calls, quit>>

\* Events leaving the loop at once when it sees QUIT
Events_Break ==
    /\ pc = "events"
    /\ \E evs \in EventLists(MaxEvents) :
          LET q == \E k \in 1..Len(evs) : evs[k] = "QUIT"
          IN /\ run' = IF q THEN FALSE ELSE run
             /\ quit' = q
             /\ pc' = IF q THEN "done" ELSE "for"
    /\ idx' = 1
    /\ start' = planets
    /\ UNCHANGED <<planets, j, total_fx, total_fy, win, tick, steps, updated, drawn,
                   pre, calls>>

\* for event in pygame.event.get(): if event.type == pygame.QUIT: run = False;
\* then the for loop over planets begins
Events ==
    /\ pc = "events"
    /\ \E evs \in EventLists(MaxEvents) :
          LET q == \E k \in 1..Len(evs) : evs[k] = "QUIT"
          IN /\ run' = IF q THEN FALSE ELSE run
             /\ quit' = q
    /\ pc' = "for"
    /\ idx' = 1
    /\ start' = planets
    /\ UNCHANGED <<planets, j, total_fx, total_fy, win, tick, steps, updated, drawn,
                   pre, calls>>

\* planet.update_position(planets) is called: total_fx = total_fy = 0
Call ==
    /\ pc = "for"
    /\ pc' = "sum"
    /\ j' = 1
    /\ total_fx' = 0
    /\ total_fy' = 0
    /\ pre' = planets
    /\ calls' = {}
    /\ UNCHANGED <<planets, run, idx, win, tick, steps, updated, drawn, start, quit>>

\* Continue calling attraction on the body itself
Continue_Attract ==
    /\ pc = "sum" /\ j <= N /\ j = idx
    /\ \E f \in {attraction(planets[idx], planets[j])} :
          /\ planets' = [planets EXCEPT ![idx].distance_to_sun = f.distance_to_sun]
          /\ total_fx' = total_fx + f.force_x
          /\ total_fy' = total_fy + f.force_y
          /\ pc' = IF f.raised THEN "crashed" ELSE "sum"
    /\ calls' = calls \cup {<<idx, j>>}
    /\ j' = j + 1
    /\ UNCHANGED <<run, idx, win, tick, steps, updated, drawn, start, pre, quit>>

\* update_position, for planet in planets: if self == planet: continue
\* (the objects are compared, which is the list positions here)
Continue ==
    /\ pc = "sum" /\ j <= N /\ j = idx
    /\ j' = j + 1
    /\ UNCHANGED <<planets, run, pc, idx, total_fx, total_fy, win, tick, steps, updated,
                   drawn, start, pre, calls, quit>>

\* update_position, for planet in planets: fx, fy = self.attraction(planet);
\* total_fx += fx; total_fy += fy
Attract ==
    /\ pc = "sum" /\ j <= N /\ j # idx
    /\ \E f \in {attraction(planets[idx], planets[j])} :
          /\ ~f.raised
          /\ planets' = [planets EXCEPT ![idx].distance_to_sun = f.distance_to_sun]
          /\ total_fx' = total_fx + f.force_x
          /\ total_fy' = total_fy + f.force_y
    /\ calls' = calls \cup {<<idx, j>>}
    /\ j' = j + 1
    /\ UNCHANGED <<run, pc, idx, win, tick, steps, updated, drawn, start, pre, quit>>

\* update_position, for planet in planets: self.attraction(planet) raises;
\* neither update_position nor main catches it, the process ends
Raise ==
    /\ pc = "sum" /\ j <= N /\ j # idx
    /\ \E f \in {attraction(planets[idx], planets[j])} :
          /\ f.raised
          /\ planets' = [planets EXCEPT ![idx].distance_to_sun = f.distance_to_sun]
    /\ calls' = calls \cup {<<idx, j>>}
    /\ pc' = "crashed"
    /\ UNCHANGED <<run, idx, j, total_fx, total_fy, win, tick, steps, updated, drawn,
                   start, pre, quit>>

\* update_position, after the for loop: lines 105-114, and the call returns
Integrate ==
    /\ pc = "sum" /\ j > N
    /\ planets' = [planets EXCEPT ![idx] = integrate(planets[idx], total_fx, total_fy)]
    /\ steps' = [steps EXCEPT ![idx] = @ + 1]
    /\ updated' = [updated EXCEPT ![idx] = @ + 1]
    /\ pc' = "draw"
    /\ UNCHANGED <<run, idx, j, total_fx, total_fy, win, tick, drawn, start, pre, calls,
                   quit>>

\* Draw drawing the body twice
Draw_Twice ==
    /\ pc = "draw"
    /\ win' = Append(Append(win, draw(planets[idx])), draw(planets[idx]))
    /\ drawn' = [drawn EXCEPT ![idx] = @ + 2]
    /\ idx' = idx + 1
    /\ pc' = IF idx < N THEN "for" ELSE "display"
    /\ UNCHANGED <<planets, run, j, total_fx, total_fy, tick, steps, updated, start,
                   pre, calls, quit>>

\* planet.draw(WIN), then the for loop over planets moves on
Draw ==
    /\ pc = "draw"
    /\ win' = Append(win, draw(planets[idx]))
    /\ drawn' = [drawn EXCEPT ![idx] = @ + 1]
    /\ idx' = idx + 1
    /\ pc' = IF idx < N THEN "for" ELSE "display"
    /\ UNCHANGED <<planets, run, j, total_fx, total_fy, tick, steps, updated, start,
                   pre, calls, quit>>

\* pygame.display.update()
Display ==
    /\ pc = "display"
    /\ pc' = "while"
    /\ UNCHANGED <<planets, run, idx, j, total_fx, total_fy, win, tick, steps, updated,
                   drawn, start, pre, calls, quit>>

Next ==
    \/ Tick \/ Exit \/ Events
    \/ Call \/ Continue \/ Attract \/ Raise \/ Integrate
    \/ Draw \/ Display

Spec == Init /\ [][Next]_vars

\* One thread runs the loop and nothing outside blocks it: it keeps taking steps
\* until it has left the loop or the process has ended
FairSpec == Spec /\ WF_vars(Next)

-----------------------------------------------------------------------------
(* Vocabulary of the properties *)

Bodies == 1..N
Others(i) == Bodies \ {i}
Pos(p) == <<p.x, p.y>>
Vel(p) == <<p.x_vel, p.y_vel>>
Coincide(a, b) == a.x = b.x /\ a.y = b.y
IsPrefix(s, t) == Len(s) <= Len(t) /\ \A k \in 1..Len(s) : s[k] = t[k]

\* update_position is running on body idx; it has just returned; it has raised
Running == pc = "sum"
Returned == pc = "draw"
Raised == pc = "crashed"

\* The sum over the bodies of S of one component of the force they exert on
\* body i, in the list ps
RECURSIVE TotalForce(_, _, _, _)
TotalForce(ps, i, S, c) ==
    IF S = {} THEN 0
    ELSE LET o == CHOOSE k \in S : TRUE
         IN attraction(ps[i], ps[o])[c] + TotalForce(ps, i, S \ {o}, c)

-----------------------------------------------------------------------------
(* C1 *)

\* C1: after N completed update_position calls on a body its orbit has exactly
\* N entries and the last one is the body's (x, y) position; every step leaves
\* the earlier entries of every orbit as they were (append-only).
C1_TrailGrowth ==
    /\ [](\A i \in Bodies :
            /\ Len(planets[i].orbit) = steps[i]
            /\ steps[i] > 0 => planets[i].orbit[steps[i]] = Pos(planets[i]))
    /\ [][\A i \in Bodies : IsPrefix(planets[i].orbit, planets'[i].orbit)]_vars

\* Some body has taken two steps, moved in both, and holds both positions in order
C1_Witness ==
    \E i \in Bodies :
        /\ steps[i] = 2
        /\ Len(planets[i].orbit) = 2
        /\ planets[i].orbit[1] # planets[i].orbit[2]
        /\ planets[i].orbit[2] = Pos(planets[i])

-----------------------------------------------------------------------------
(* C3 *)

\* C3: when update_position returns, the body's velocity is the old velocity
\* plus (F_total / mass) * dt, and its position is the old position plus the
\* NEW velocity times dt, in each coordinate.
C3_SemiImplicitEuler ==
    Returned =>
        LET old == pre[idx]
            new == planets[idx]
        IN /\ new.x_vel = old.x_vel
                + RoundDiv(TotalForce(pre, idx, Others(idx), "force_x"), old.mass) * TIMESTEP
           /\ new.y_vel = old.y_vel
                + RoundDiv(TotalForce(pre, idx, Others(idx), "force_y"), old.mass) * TIMESTEP
           /\ new.x = old.x + new.x_vel * TIMESTEP
           /\ new.y = old.y + new.y_vel * TIMESTEP

\* A step that changed both velocity components, so that old and new velocity
\* give different positions
C3_Witness ==
    /\ Returned
    /\ planets[idx].x_vel # pre[idx].x_vel
    /\ planets[idx].y_vel # pre[idx].y_vel
    /\ planets[idx].x # pre[idx].x + pre[idx].x_vel * TIMESTEP
    /\ planets[idx].y # pre[idx].y + pre[idx].y_vel * TIMESTEP

-----------------------------------------------------------------------------
(* C4 *)

\* C4, as claimed: with a single body in the list, a step changes neither its
\* velocity nor its position.
C4_SingleBodyNeverMoves ==
    (N = 1 /\ Returned) =>
        /\ Vel(planets[1]) = Vel(pre[1])
        /\ Pos(planets[1]) = Pos(pre[1])

\* C4, amended: with a single body in the list, a step leaves its velocity and
\* its distance_to_sun unchanged and moves it by velocity * dt, so after n
\* steps it stands n - 1 such moves from its first orbit entry.
C4_SingleBodyDrifts ==
    N = 1 =>
        /\ planets[1].distance_to_sun = 0
        /\ Returned =>
              /\ Vel(planets[1]) = Vel(pre[1])
              /\ planets[1].x = pre[1].x + pre[1].x_vel * TIMESTEP
              /\ planets[1].y = pre[1].y + pre[1].y_vel * TIMESTEP
        /\ steps[1] > 0 =>
              /\ planets[1].x = planets[1].orbit[1][1]
                                  + (steps[1] - 1) * planets[1].x_vel * TIMESTEP
              /\ planets[1].y = planets[1].orbit[1][2]
                                  + (steps[1] - 1) * planets[1].y_vel * TIMESTEP

\* A single body with a velocity, two steps on
C4_Witness ==
    /\ N = 1
    /\ Returned
    /\ steps[1] = 2
    /\ planets[1].x_vel # 0
    /\ planets[1].y_vel # 0
    /\ Pos(planets[1]) # Pos(pre[1])

-----------------------------------------------------------------------------
(* C10 *)

\* C10: a call of update_position on body a, at every step of it and whether
\* it returns or raises, calls attraction(a, b) for bodies b other than a only, leaves every other
\* body as it was, leaves a's mass, radius, color and sun flag as they were,
\* and leaves the length and order of the list as they were.
C10_Frame ==
    (Running \/ Returned \/ Raised) =>
        /\ <<idx, idx>> \notin calls
        /\ \A c \in calls : c[1] = idx /\ c[2] \in Others(idx)
        /\ Len(planets) = Len(pre)
        /\ \A o \in Others(idx) : planets[o] = pre[o]
        /\ planets[idx].mass = pre[idx].mass
        /\ planets[idx].radius = pre[idx].radius
        /\ planets[idx].color = pre[idx].color
        /\ planets[idx].sun = pre[idx].sun

\* A call among three bodies that changed the body it was called on
C10_Witness ==
    /\ Returned
    /\ N = 3
    /\ calls = {<<idx, o>> : o \in Others(idx)}
    /\ Pos(planets[idx]) # Pos(pre[idx])
    /\ Vel(planets[idx]) # Vel(pre[idx])
    /\ planets[idx].distance_to_sun # pre[idx].distance_to_sun

-----------------------------------------------------------------------------
(* C2 *)

\* C2: when update_position is called on a body in a tick, every other body,
\* whose position its force sum reads, still stands where it stood when the
\* tick's pass over the list began.
C2_ForcesReadStartOfStep ==
    Returned => \A o \in Others(idx) : Pos(pre[o]) = Pos(start[o])

-----------------------------------------------------------------------------
(* C5 *)

\* C5: attraction(a, b) raises for any two distinct bodies at identical
\* coordinates; an update_position call that meets such a pair ends the run
\* there: the process is left crashed and takes no further step.
C5_CoincidentBodiesAreFatal ==
    /\ [](\A a, b \in Bodies :
            (a # b /\ Coincide(planets[a], planets[b]))
                => attraction(planets[a], planets[b]).raised)
    /\ [][(pc = "sum" /\ j <= N /\ j # idx /\ Coincide(planets[idx], planets[j]))
            => pc' = "crashed"]_vars
    /\ [](Returned => \A o \in Others(idx) : ~Coincide(pre[idx], pre[o]))
    /\ [][pc # "crashed"]_vars

\* The run ended in update_position on the second body, which shares its
\* coordinates with the third, after the first body was advanced and drawn
C5_Witness ==
    /\ Raised
    /\ idx = 2
    /\ updated[1] = 1 /\ drawn[1] = 1
    /\ Coincide(planets[2], planets[3])

-----------------------------------------------------------------------------
(* C6 *)

-----------------------------------------------------------------------------
(* C7 *)

\* C7: a QUIT event seen in a tick clears run and cancels nothing of the tick:
\* the loop is left only with every body advanced and drawn once in the tick
\* that saw the event; after that tick no further tick starts and no body is
\* advanced; and once the event is seen the run ends (by leaving the loop, or
\* by the uncaught error of update_position).
C7_QuitAfterFullTick ==
    /\ [](quit => ~run)
    /\ []((quit /\ pc \in {"display", "while", "done"})
            => \A i \in Bodies : updated[i] = 1 /\ drawn[i] = 1)
    /\ [](pc = "done" => quit)
    /\ [][(quit /\ pc \in {"display", "while", "done"})
            => (tick' = tick /\ steps' = steps /\ planets' = planets)]_vars
    /\ (quit ~> (pc = "done" \/ pc = "crashed"))

\* The loop was left after a second tick that saw QUIT and advanced three bodies
C7_Witness ==
    /\ pc = "done"
    /\ quit
    /\ tick = 2
    /\ N = 3
    /\ \A i \in Bodies : steps[i] = 2 /\ updated[i] = 1 /\ drawn[i] = 1

-----------------------------------------------------------------------------
(* C8 *)

\* The positions of the bodies are as the run began or as a step just left them
\* (they change in no other state, and the force depends on nothing else that changes)
Moved == pc \in {"while", "draw"}

\* C8: for any two distinct bodies at distinct positions, attraction(a, b) and
\* attraction(b, a) both return, and their forces are opposite in each
\* component, to within one unit of rounding.
C8_ForceSymmetry ==
    Moved =>
        \A a, b \in Bodies :
            (a < b /\ ~Coincide(planets[a], planets[b])) =>
                LET fab == attraction(planets[a], planets[b])
                    fba == attraction(planets[b], planets[a])
                IN /\ ~fab.raised /\ ~fba.raised
                   /\ Abs(fab.force_x + fba.force_x) <= 1
                   /\ Abs(fab.force_y + fba.force_y) <= 1

\* Two bodies of different mass, off both axes from one another, pulling at
\* one another with a force of many units in both components
C8_Witness ==
    \E a, b \in Bodies :
        /\ pc = "draw"
        /\ planets[a].mass # planets[b].mass
        /\ planets[a].x # planets[b].x
        /\ planets[a].y # planets[b].y
        /\ Abs(attraction(planets[a], planets[b]).force_x) > 100
        /\ Abs(attraction(planets[a], planets[b]).force_y) > 100
        /\ Pos(planets[a]) \notin {<<s[1], s[2]>> : s \in Starts}

-----------------------------------------------------------------------------
(* C9 *)

\* The bodies update_position(a) calls attraction with, given the list ps it is
\* called on: those other bodies that no body coincident with a precedes
Visited(ps, a) ==
    {o \in 1..Len(ps) \ {a} :
        \A k \in 1..(o - 1) : k # a => ~Coincide(ps[a], ps[k])}

Anchors(ps, a) == {o \in Visited(ps, a) : ps[o].sun}
Last(S) == CHOOSE o \in S : \A k \in S : k <= o
Distance(a, b) == sqrt((b.x - a.x) * (b.x - a.x) + (b.y - a.y) * (b.y - a.y))

\* C9: distance_to_sun is 0 for a body that update_position was never called
\* on and for a body that has no anchor among the others; attraction(a, b)
\* leaves in a.distance_to_sun the distance from a to b when b is an anchor,
\* and what was there when b is not; an update_position call on a leaves
\* there the distance to the last anchor in list order it called attraction
\* with (measured from where a stood at the call), and what was there if it
\* met no anchor.
C9_DistanceToSun ==
    /\ [](\A a \in Bodies :
            ((steps[a] = 0 /\ ~((Running \/ Raised) /\ idx = a))
                \/ \A o \in Others(a) : ~planets[o].sun)
                => planets[a].distance_to_sun = 0)
    /\ [][(Running /\ j <= N /\ j # idx) =>
            planets'[idx].distance_to_sun
                = IF planets[j].sun THEN Distance(planets[idx], planets[j])
                  ELSE planets[idx].distance_to_sun]_vars
    /\ []((Returned \/ Raised) =>
            planets[idx].distance_to_sun
                = IF Anchors(pre, idx) = {} THEN pre[idx].distance_to_sun
                  ELSE Distance(pre[idx], pre[Last(Anchors(pre, idx))]))

\* The first of three bodies was advanced past two anchors at different
\* distances and reports the distance to the later one
C9_Witness ==
    /\ Returned
    /\ idx = 1
    /\ N = 3
    /\ pre[2].sun /\ pre[3].sun
    /\ Distance(pre[1], pre[2]) # Distance(pre[1], pre[3])
    /\ planets[1].distance_to_sun = Distance(pre[1], pre[3])

====
